---- MODULE Spec2Model ----
(***************************************************************************)
(* Verification model of dnstwist.py (asyncio fork).                       *)
(*                                                                         *)
(* State machines of this module:                                          *)
(*   GenSpec  - main() from the command line to the candidate list:       *)
(*              UrlParser, DomainFuzz.generate, DomainDict.generate.       *)
(*   Spec     - main() from the point where the candidate list exists:     *)
(*              the idle shortcut, DNSTwister.__init__, DNSTwister.run,    *)
(*              the K start_worker tasks, the status task, the reporters   *)
(*              and the process exit.                                      *)
(*   LiveSpec - Spec with the fairness the asyncio event loop provides.    *)
(* Candidates of the worker pool are identified by their position 1..n in  *)
(* the initial queue (the dict objects of self.domains).                   *)
(***************************************************************************)
EXTENDS Integers, Sequences, FiniteSets, TLC

(***************************************************************************)
(* Bounds of the model.                                                    *)
(***************************************************************************)
MaxCandidates == 3
MaxWorkerArg == 3
MaxStemLen == 3

WorkerArgs == (0 - 1) .. MaxWorkerArg
Formats == {"cli", "csv", "json", "idle"}

\* rcodes a Reply can carry, and the outcome "the awaited lookup raised"
\* (timeout / network error surfaced by the resolver future).
Rcodes == {"NOERROR", "NXDOMAIN", "SERVFAIL", "REFUSED"}
Outcomes == Rcodes \cup {"TIMEOUT"}

(***************************************************************************)
(* Constant tables of DomainFuzz: the keyboard layouts and the homoglyphs,  *)
(* as code points.                                                         *)
(***************************************************************************)
Qwerty ==
    49 :> <<50, 113>> @@ 50 :> <<51, 119, 113, 49>> @@
    51 :> <<52, 101, 119, 50>> @@ 52 :> <<53, 114, 101, 51>> @@
    53 :> <<54, 116, 114, 52>> @@ 54 :> <<55, 121, 116, 53>> @@
    55 :> <<56, 117, 121, 54>> @@ 56 :> <<57, 105, 117, 55>> @@
    57 :> <<48, 111, 105, 56>> @@ 48 :> <<112, 111, 57>> @@
    113 :> <<49, 50, 119, 97>> @@ 119 :> <<51, 101, 115, 97, 113, 50>> @@
    101 :> <<52, 114, 100, 115, 119, 51>> @@
    114 :> <<53, 116, 102, 100, 101, 52>> @@
    116 :> <<54, 121, 103, 102, 114, 53>> @@
    121 :> <<55, 117, 104, 103, 116, 54>> @@
    117 :> <<56, 105, 106, 104, 121, 55>> @@
    105 :> <<57, 111, 107, 106, 117, 56>> @@
    111 :> <<48, 112, 108, 107, 105, 57>> @@ 112 :> <<108, 111, 48>> @@
    97 :> <<113, 119, 115, 122>> @@ 115 :> <<101, 100, 120, 122, 97, 119>> @@
    100 :> <<114, 102, 99, 120, 115, 101>> @@
    102 :> <<116, 103, 118, 99, 100, 114>> @@
    103 :> <<121, 104, 98, 118, 102, 116>> @@
    104 :> <<117, 106, 110, 98, 103, 121>> @@
    106 :> <<105, 107, 109, 110, 104, 117>> @@
    107 :> <<111, 108, 109, 106, 105>> @@ 108 :> <<107, 111, 112>> @@
    122 :> <<97, 115, 120>> @@ 120 :> <<122, 115, 100, 99>> @@
    99 :> <<120, 100, 102, 118>> @@ 118 :> <<99, 102, 103, 98>> @@
    98 :> <<118, 103, 104, 110>> @@ 110 :> <<98, 104, 106, 109>> @@
    109 :> <<110, 106, 107>>

Qwertz ==
    49 :> <<50, 113>> @@ 50 :> <<51, 119, 113, 49>> @@
    51 :> <<52, 101, 119, 50>> @@ 52 :> <<53, 114, 101, 51>> @@
    53 :> <<54, 116, 114, 52>> @@ 54 :> <<55, 122, 116, 53>> @@
    55 :> <<56, 117, 122, 54>> @@ 56 :> <<57, 105, 117, 55>> @@
    57 :> <<48, 111, 105, 56>> @@ 48 :> <<112, 111, 57>> @@
    113 :> <<49, 50, 119, 97>> @@ 119 :> <<51, 101, 115, 97, 113, 50>> @@
    101 :> <<52, 114, 100, 115, 119, 51>> @@
    114 :> <<53, 116, 102, 100, 101, 52>> @@
    116 :> <<54, 122, 103, 102, 114, 53>> @@
    122 :> <<55, 117, 104, 103, 116, 54>> @@
    117 :> <<56, 105, 106, 104, 122, 55>> @@
    105 :> <<57, 111, 107, 106, 117, 56>> @@
    111 :> <<48, 112, 108, 107, 105, 57>> @@ 112 :> <<108, 111, 48>> @@
    97 :> <<113, 119, 115, 121>> @@ 115 :> <<101, 100, 120, 121, 97, 119>> @@
    100 :> <<114, 102, 99, 120, 115, 101>> @@
    102 :> <<116, 103, 118, 99, 100, 114>> @@
    103 :> <<122, 104, 98, 118, 102, 116>> @@
    104 :> <<117, 106, 110, 98, 103, 122>> @@
    106 :> <<105, 107, 109, 110, 104, 117>> @@
    107 :> <<111, 108, 109, 106, 105>> @@ 108 :> <<107, 111, 112>> @@
    121 :> <<97, 115, 120>> @@ 120 :> <<121, 115, 100, 99>> @@
    99 :> <<120, 100, 102, 118>> @@ 118 :> <<99, 102, 103, 98>> @@
    98 :> <<118, 103, 104, 110>> @@ 110 :> <<98, 104, 106, 109>> @@
    109 :> <<110, 106, 107>>

Azerty ==
    49 :> <<50, 97>> @@ 50 :> <<51, 122, 97, 49>> @@
    51 :> <<52, 101, 122, 50>> @@ 52 :> <<53, 114, 101, 51>> @@
    53 :> <<54, 116, 114, 52>> @@ 54 :> <<55, 121, 116, 53>> @@
    55 :> <<56, 117, 121, 54>> @@ 56 :> <<57, 105, 117, 55>> @@
    57 :> <<48, 111, 105, 56>> @@ 48 :> <<112, 111, 57>> @@
    97 :> <<50, 122, 113, 49>> @@ 122 :> <<51, 101, 115, 113, 97, 50>> @@
    101 :> <<52, 114, 100, 115, 122, 51>> @@
    114 :> <<53, 116, 102, 100, 101, 52>> @@
    116 :> <<54, 121, 103, 102, 114, 53>> @@
    121 :> <<55, 117, 104, 103, 116, 54>> @@
    117 :> <<56, 105, 106, 104, 121, 55>> @@
    105 :> <<57, 111, 107, 106, 117, 56>> @@
    111 :> <<48, 112, 108, 107, 105, 57>> @@ 112 :> <<108, 111, 48, 109>> @@
    113 :> <<122, 115, 119, 97>> @@
    115 :> <<101, 100, 120, 119, 113, 122>> @@
    100 :> <<114, 102, 99, 120, 115, 101>> @@
    102 :> <<116, 103, 118, 99, 100, 114>> @@
    103 :> <<121, 104, 98, 118, 102, 116>> @@
    104 :> <<117, 106, 110, 98, 103, 121>> @@
    106 :> <<105, 107, 110, 104, 117>> @@ 107 :> <<111, 108, 106, 105>> @@
    108 :> <<107, 111, 112, 109>> @@ 109 :> <<108, 112>> @@
    119 :> <<115, 120, 113>> @@ 120 :> <<119, 115, 100, 99>> @@
    99 :> <<120, 100, 102, 118>> @@ 118 :> <<99, 102, 103, 98>> @@
    98 :> <<118, 103, 104, 110>> @@ 110 :> <<98, 104, 106>>

Glyphs ==
    97 :> <<<<224>>, <<225>>, <<226>>, <<227>>, <<228>>, <<229>>, <<593>>, <<7841>>, <<462>>, <<259>>, <<551>>, <<261>>>>
    @@ 98 :> <<<<100>>, <<108, 98>>, <<665>>, <<595>>, <<7683>>, <<7685>>, <<7687>>, <<389>>>>
    @@ 99 :> <<<<101>>, <<392>>, <<267>>, <<263>>, <<231>>, <<269>>, <<265>>>>
    @@ 100 :> <<<<98>>, <<99, 108>>, <<100, 108>>, <<599>>, <<273>>, <<271>>, <<598>>, <<7697>>, <<7691>>, <<7693>>, <<7695>>, <<7699>>>>
    @@ 101 :> <<<<99>>, <<233>>, <<232>>, <<234>>, <<235>>, <<275>>, <<277>>, <<283>>, <<279>>, <<7865>>, <<281>>, <<553>>, <<583>>, <<7707>>>>
    @@ 102 :> <<<<402>>, <<7711>>>>
    @@ 103 :> <<<<113>>, <<610>>, <<609>>, <<289>>, <<287>>, <<501>>, <<291>>, <<285>>, <<487>>, <<485>>>>
    @@ 104 :> <<<<108, 104>>, <<293>>, <<543>>, <<295>>, <<614>>, <<7719>>, <<7721>>, <<11368>>, <<7715>>, <<7717>>, <<7723>>, <<7830>>>>
    @@ 105 :> <<<<49>>, <<108>>, <<237>>, <<236>>, <<239>>, <<305>>, <<617>>, <<464>>, <<301>>, <<7881>>, <<7883>>, <<616>>, <<523>>, <<299>>>>
    @@ 106 :> <<<<669>>, <<585>>>>
    @@ 107 :> <<<<108, 107>>, <<105, 107>>, <<108, 99>>, <<7731>>, <<7733>>, <<11370>>, <<311>>>>
    @@ 108 :> <<<<49>>, <<105>>, <<619>>, <<322>>>>
    @@ 109 :> <<<<110>>, <<110, 110>>, <<114, 110>>, <<114, 114>>, <<7745>>, <<7747>>, <<7437>>, <<625>>, <<7743>>>>
    @@ 110 :> <<<<109>>, <<114>>, <<324>>, <<7749>>, <<7751>>, <<7753>>, <<241>>, <<326>>, <<505>>, <<328>>, <<42897>>>>
    @@ 111 :> <<<<48>>, <<559>>, <<7885>>, <<7887>>, <<417>>, <<243>>, <<246>>>>
    @@ 112 :> <<<<447>>, <<421>>, <<7765>>, <<7767>>>>
    @@ 113 :> <<<<103>>, <<672>>>>
    @@ 114 :> <<<<640>>, <<636>>, <<637>>, <<341>>, <<343>>, <<345>>, <<589>>, <<638>>, <<531>>, <<529>>, <<7769>>, <<7771>>, <<7775>>>>
    @@ 115 :> <<<<642>>, <<347>>, <<7779>>, <<7777>>, <<537>>, <<349>>, <<353>>>>
    @@ 116 :> <<<<355>>, <<359>>, <<7787>>, <<7789>>, <<539>>, <<427>>>>
    @@ 117 :> <<<<7452>>, <<468>>, <<365>>, <<252>>, <<649>>, <<249>>, <<250>>, <<251>>, <<361>>, <<363>>, <<371>>, <<432>>, <<367>>, <<369>>, <<533>>, <<535>>, <<7909>>>>
    @@ 118 :> <<<<7807>>, <<11377>>, <<7564>>, <<7805>>, <<11380>>>>
    @@ 119 :> <<<<118, 118>>, <<373>>, <<7809>>, <<7811>>, <<7813>>, <<11379>>, <<7815>>, <<7817>>, <<7832>>>>
    @@ 121 :> <<<<655>>, <<253>>, <<255>>, <<375>>, <<436>>, <<563>>, <<591>>, <<7935>>, <<7823>>, <<7925>>>>
    @@ 122 :> <<<<656>>, <<380>>, <<378>>, <<7458>>, <<438>>, <<7827>>, <<7829>>, <<11372>>>>

GlyphCodePoints ==
    {224, 225, 226, 227, 228, 229, 231, 232, 233, 234, 235, 236,
     237, 239, 241, 243, 246, 249, 250, 251, 252, 253, 255, 259,
     261, 263, 265, 267, 269, 271, 273, 275, 277, 279, 281, 283,
     285, 287, 289, 291, 293, 295, 299, 301, 305, 311, 322, 324,
     326, 328, 341, 343, 345, 347, 349, 353, 355, 359, 361, 363,
     365, 367, 369, 371, 373, 375, 378, 380, 389, 392, 402, 417,
     421, 427, 432, 436, 438, 447, 462, 464, 468, 485, 487, 501,
     505, 523, 529, 531, 533, 535, 537, 539, 543, 551, 553, 559,
     563, 583, 585, 589, 591, 593, 595, 598, 599, 609, 610, 614,
     616, 617, 619, 625, 636, 637, 638, 640, 642, 649, 655, 656,
     665, 669, 672, 7437, 7452, 7458, 7564, 7683, 7685, 7687, 7691, 7693,
     7695, 7697, 7699, 7707, 7711, 7715, 7717, 7719, 7721, 7723, 7731, 7733,
     7743, 7745, 7747, 7749, 7751, 7753, 7765, 7767, 7769, 7771, 7775, 7777,
     7779, 7787, 7789, 7805, 7807, 7809, 7811, 7813, 7815, 7817, 7823, 7827,
     7829, 7830, 7832, 7841, 7865, 7881, 7883, 7885, 7887, 7909, 7925, 7935,
     11368, 11370, 11372, 11377, 11379, 11380, 42897}

(***************************************************************************)
(* Strings are sequences of Unicode code points.                           *)
(***************************************************************************)
Dot == 46
Hyphen == 45

IsDigit(c) == c \in 48 .. 57
IsLower(c) == c \in 97 .. 122
IsUpper(c) == c \in 65 .. 90
IsAlpha(c) == IsLower(c) \/ IsUpper(c)
IsAscii(s) == \A i \in 1 .. Len(s) : s[i] < 128

MinOf(S) == CHOOSE x \in S : \A y \in S : x <= y
MaxOf(S) == CHOOSE x \in S : \A y \in S : x >= y
Range(q) == {q[i] : i \in 1 .. Len(q)}

\* Python slices s[:i] and s[i:] for 0 <= i <= len(s)
Upto(s, i) == SubSeq(s, 1, i)
From(s, i) == SubSeq(s, i + 1, Len(s))

\* str.lower() on ASCII text
Lower(s) == [i \in 1 .. Len(s) |-> IF IsUpper(s[i]) THEN s[i] + 32 ELSE s[i]]

\* str.split(sep)
RECURSIVE Split(_, _)
Split(s, sep) ==
    LET idx == {i \in 1 .. Len(s) : s[i] = sep}
    IN IF idx = {} THEN <<s>>
       ELSE <<Upto(s, MinOf(idx) - 1)>> \o Split(From(s, MinOf(idx)), sep)

\* str.rsplit(sep, n)
RECURSIVE RSplit(_, _, _)
RSplit(s, sep, n) ==
    LET idx == {i \in 1 .. Len(s) : s[i] = sep}
    IN IF n = 0 \/ idx = {} THEN <<s>>
       ELSE RSplit(Upto(s, MaxOf(idx) - 1), sep, n - 1)
               \o <<From(s, MaxOf(idx))>>

\* sep.join(parts)
RECURSIVE Join(_, _)
Join(parts, sep) ==
    IF Len(parts) = 0 THEN <<>>
    ELSE IF Len(parts) = 1 THEN parts[1]
    ELSE parts[1] \o <<sep>> \o Join(Tail(parts), sep)

\* str.replace(c, g) for a single character c
RECURSIVE ReplaceAll(_, _, _)
ReplaceAll(s, c, g) ==
    IF s = <<>> THEN <<>>
    ELSE (IF s[1] = c THEN g ELSE <<s[1]>>) \o ReplaceAll(Tail(s), c, g)

\* chr(ord(c) ^ mask) for a mask that is a power of two
Xor(c, mask) == IF (c \div mask) % 2 = 1 THEN c - mask ELSE c + mask

Reverse(q) == [i \in 1 .. Len(q) |-> q[Len(q) + 1 - i]]

\* the elements of a finite set of integers in increasing order
RECURSIVE SortedInts(_)
SortedInts(S) ==
    IF S = {} THEN <<>> ELSE <<MinOf(S)>> \o SortedInts(S \ {MinOf(S)})

\* concatenation of a sequence of sequences
RECURSIVE Flatten(_)
Flatten(qs) == IF qs = <<>> THEN <<>> ELSE qs[1] \o Flatten(Tail(qs))

\* the strings of a finite set in code point order (Python's sorted())
RECURSIVE Sorted(_)
Sorted(S) ==
    LET rest == S \ {<<>>}
        heads == SortedInts({s[1] : s \in rest})
        group(c) == LET sub == Sorted({Tail(s) : s \in {t \in rest : t[1] = c}})
                    IN [k \in 1 .. Len(sub) |-> <<c>> \o sub[k]]
    IN (IF <<>> \in S THEN <<<<>>>> ELSE <<>>)
          \o Flatten([k \in 1 .. Len(heads) |-> group(heads[k])])

(***************************************************************************)
(* list(set(result)): the iteration order of a Python set of strings       *)
(* depends on the per-process hash seed.  Two of the possible orders are   *)
(* modelled, selected by the seed of the run.                              *)
(***************************************************************************)
Seeds == {0, 1}

SetToList(S, seed) == IF seed = 0 THEN Sorted(S) ELSE Reverse(Sorted(S))

(***************************************************************************)
(* UrlParser.__validate_domain on the lower-cased host:                    *)
(*   \A([a-z0-9]+(-[a-z0-9]+)*\.)+[a-z]{2,}\Z  (IGNORECASE), len <= 255    *)
(***************************************************************************)
MaxHostLen == 255

IsAlnum(c) == IsDigit(c) \/ IsAlpha(c)

\* [a-z0-9]+(-[a-z0-9]+)*
HostLabel(l) ==
    /\ Len(l) >= 1
    /\ \A i \in 1 .. Len(l) : IsAlnum(l[i]) \/ l[i] = Hyphen
    /\ l[1] # Hyphen
    /\ l[Len(l)] # Hyphen
    /\ \A i \in 1 .. Len(l) - 1 : ~(l[i] = Hyphen /\ l[i + 1] = Hyphen)

UrlValidateDomain(domain) ==
    IF Len(domain) > MaxHostLen THEN FALSE
    ELSE LET d == IF domain[Len(domain)] = Dot
                  THEN Upto(domain, Len(domain) - 1) ELSE domain
             labels == Split(d, Dot)
             last == labels[Len(labels)]
         IN /\ Len(labels) >= 2
            /\ \A k \in 1 .. Len(labels) - 1 : HostLabel(labels[k])
            /\ Len(last) >= 2
            /\ \A i \in 1 .. Len(last) : IsAlpha(last[i])

(***************************************************************************)
(* parse_effective_tld_names over the lines of effective_tld_names.dat:    *)
(* lines matching ^[a-z]{2,4}\.[a-z]{2}$ (IGNORECASE) are split into       *)
(* sld.tld and collected per tld.  The file is an input; TldFile is the    *)
(* content used here: co.uk, org.uk, com, uk, *.ck, com.au, school.nz      *)
(***************************************************************************)
TldFile ==
    << <<99, 111, 46, 117, 107>>, <<111, 114, 103, 46, 117, 107>>,
       <<99, 111, 109>>, <<117, 107>>, <<42, 46, 99, 107>>,
       <<99, 111, 109, 46, 97, 117>>,
       <<115, 99, 104, 111, 111, 108, 46, 110, 122>> >>

TldLineMatches(l) ==
    LET p == Split(l, Dot)
    IN /\ Len(p) = 2
       /\ Len(p[1]) \in 2 .. 4
       /\ Len(p[2]) = 2
       /\ \A i \in 1 .. Len(p[1]) : IsAlpha(p[1][i])
       /\ \A i \in 1 .. Len(p[2]) : IsAlpha(p[2][i])

\* cc_tld.get(tld): the slds listed under tld, in file order (<<>> if none)
CcTld(tld) ==
    LET hits == SelectSeq(TldFile,
                   LAMBDA l : TldLineMatches(l) /\ Split(l, Dot)[2] = tld)
    IN [k \in 1 .. Len(hits) |-> Split(hits[k], Dot)[1]]

(***************************************************************************)
(* DomainGenerator.domain_tld                                              *)
(***************************************************************************)
\* a split that never consults cc_tld
DomainTldLastLabel(host) ==
    LET domain == RSplit(host, Dot, 1)
    IN <<domain[1], domain[2]>>

DomainTld(host) ==
    LET domain == RSplit(host, Dot, 2)
    IN IF Len(domain) = 2 THEN <<domain[1], domain[2]>>
       ELSE IF CcTld(domain[3]) # <<>> /\ domain[2] \in Range(CcTld(domain[3]))
            THEN <<domain[1], domain[2] \o <<Dot>> \o domain[3]>>
            ELSE <<domain[1] \o <<Dot>> \o domain[2], domain[3]>>

(***************************************************************************)
(* Punycode (RFC 3492), as used by idna.encode for a non-ASCII label.      *)
(***************************************************************************)
PunyDigit(d) == IF d < 26 THEN 97 + d ELSE 22 + d

PunyThreshold(k, bias) ==
    IF k <= bias THEN 1 ELSE IF k >= bias + 26 THEN 26 ELSE k - bias

RECURSIVE PunyAdaptLoop(_, _)
PunyAdaptLoop(d, k) ==
    IF d > 455 THEN PunyAdaptLoop(d \div 35, k + 36)
    ELSE k + ((36 * d) \div (d + 38))

PunyAdapt(delta, numpoints, first) ==
    LET d == IF first THEN delta \div 700 ELSE delta \div 2
    IN PunyAdaptLoop(d + (d \div numpoints), 0)

\* the generalized variable-length integer of q
RECURSIVE PunyInt(_, _, _)
PunyInt(q, k, bias) ==
    LET t == PunyThreshold(k, bias)
    IN IF q < t THEN <<PunyDigit(q)>>
       ELSE <<PunyDigit(t + ((q - t) % (36 - t)))>>
               \o PunyInt((q - t) \div (36 - t), k + 36, bias)

\* one pass over the input for the current code point st.n
RECURSIVE PunyScan(_, _, _, _)
PunyScan(s, i, b, st) ==
    IF i > Len(s) THEN st
    ELSE IF s[i] < st.n
         THEN PunyScan(s, i + 1, b, [st EXCEPT !.delta = @ + 1])
    ELSE IF s[i] = st.n
         THEN PunyScan(s, i + 1, b,
                 [n |-> st.n, delta |-> 0, h |-> st.h + 1,
                  bias |-> PunyAdapt(st.delta, st.h + 1, st.h = b),
                  out |-> st.out \o PunyInt(st.delta, 36, st.bias)])
    ELSE PunyScan(s, i + 1, b, st)

RECURSIVE PunyLoop(_, _, _)
PunyLoop(s, b, st) ==
    IF st.h >= Len(s) THEN st.out
    ELSE LET m == MinOf({s[i] : i \in 1 .. Len(s)} \ (0 .. st.n - 1))
             st1 == [st EXCEPT !.delta = @ + (m - st.n) * (st.h + 1), !.n = m]
             st2 == PunyScan(s, 1, b, st1)
         IN PunyLoop(s, b, [st2 EXCEPT !.delta = @ + 1, !.n = @ + 1])

Punycode(s) ==
    LET basic == SelectSeq(s, LAMBDA c : c < 128)
        b == Len(basic)
    IN PunyLoop(s, b,
          [n |-> 128, delta |-> 0, bias |-> 72, h |-> b,
           out |-> IF b > 0 THEN basic \o <<Hyphen>> ELSE basic])

(***************************************************************************)
(* idna.encode (package idna, IDNA 2008).  A result is a record            *)
(* [ok, val]; ok = FALSE stands for a raised IDNAError (a UnicodeError).   *)
(***************************************************************************)
MaxLabelLen == 63
MaxNameLen == 253
MinNameLen == 4

\* code point class PVALID, restricted to ASCII and the glyph table
PValid(c) ==
    IsLower(c) \/ IsDigit(c) \/ c = Hyphen \/ c \in GlyphCodePoints

\* idna.check_label
CheckLabel(l) ==
    /\ Len(l) > 0
    /\ ~(Len(l) >= 4 /\ l[3] = Hyphen /\ l[4] = Hyphen)
    /\ l[1] # Hyphen
    /\ l[Len(l)] # Hyphen
    /\ \A i \in 1 .. Len(l) : PValid(l[i])

\* "xn--"
ALabelPrefix == <<120, 110, 45, 45>>

HasALabelPrefix(l) == Len(l) >= 4 /\ Upto(l, 4) = ALabelPrefix

IdnaFail == [ok |-> FALSE, val |-> <<>>]

\* idna.alabel.  An ASCII label that already carries the xn-- prefix is
\* decoded and re-checked by the package; no such label arises from the
\* hosts enumerated here (NoALabelInput), and it is rejected in this model.
Alabel(l) ==
    IF IsAscii(l)
    THEN IF HasALabelPrefix(Lower(l)) THEN IdnaFail
         ELSE IF CheckLabel(Lower(l)) /\ Len(l) <= MaxLabelLen
              THEN [ok |-> TRUE, val |-> l]
              ELSE IdnaFail
    ELSE IF CheckLabel(l) /\ Len(ALabelPrefix \o Punycode(l)) <= MaxLabelLen
         THEN [ok |-> TRUE, val |-> ALabelPrefix \o Punycode(l)]
         ELSE IdnaFail

IdnaEncode(s) ==
    LET labels0 == Split(s, Dot)
        trailing == labels0[Len(labels0)] = <<>>
        labels == IF trailing THEN Upto(labels0, Len(labels0) - 1)
                  ELSE labels0
        enc == [k \in 1 .. Len(labels) |-> Alabel(labels[k])]
        out == Join([k \in 1 .. Len(labels) |-> enc[k].val]
                       \o (IF trailing THEN <<<<>>>> ELSE <<>>), Dot)
    IN IF labels0 = <<<<>>>> THEN IdnaFail
       ELSE IF \E k \in 1 .. Len(labels) : ~enc[k].ok THEN IdnaFail
       ELSE IF Len(out) > (IF trailing THEN MaxNameLen + 1 ELSE MaxNameLen)
            THEN IdnaFail
       ELSE [ok |-> TRUE, val |-> out]

(***************************************************************************)
(* DomainFuzz.__validate_domain                                            *)
(*  (?=^.{4,253}$)(^((?!-)[a-zA-Z0-9-]{1,63}(?<!-)\.)+[a-zA-Z]{2,63}\.?$)  *)
(***************************************************************************)
RegexLabel(l) ==
    /\ Len(l) \in 1 .. MaxLabelLen
    /\ \A i \in 1 .. Len(l) : IsAlnum(l[i]) \/ l[i] = Hyphen
    /\ l[1] # Hyphen
    /\ l[Len(l)] # Hyphen

RegexTld(l) ==
    /\ Len(l) \in 2 .. MaxLabelLen
    /\ \A i \in 1 .. Len(l) : IsAlpha(l[i])

AllowedMatch(d) ==
    /\ Len(d) \in MinNameLen .. MaxNameLen
    /\ LET parts == Split(d, Dot)
           body == IF parts[Len(parts)] = <<>>
                   THEN Upto(parts, Len(parts) - 1) ELSE parts
       IN /\ Len(body) >= 2
          /\ \A k \in 1 .. Len(body) - 1 : RegexLabel(body[k])
          /\ RegexTld(body[Len(body)])

ValidateDomain(domain) ==
    LET domain_idna == IdnaEncode(domain)
    IN IF ~domain_idna.ok THEN FALSE
       ELSE IF Len(domain) = Len(domain_idna.val) /\ domain # domain_idna.val
            THEN FALSE
       ELSE AllowedMatch(domain_idna.val)

(***************************************************************************)
(* DomainFuzz.__filter_domains: one pass over self.domains in order,       *)
(* keeping a candidate when its name validates and was not seen before.    *)
(* FilterRange folds the loop over ds[lo..hi] by halves; its result is     *)
(* the kept candidates and the `seen` set after the range.                 *)
(***************************************************************************)
RECURSIVE FilterRange(_, _, _, _)
FilterRange(ds, lo, hi, seen) ==
    IF lo > hi THEN [out |-> <<>>, seen |-> seen]
    ELSE IF lo = hi
         THEN IF ValidateDomain(ds[lo].name) /\ ds[lo].name \notin seen
              THEN [out |-> <<ds[lo]>>, seen |-> seen \cup {ds[lo].name}]
              ELSE [out |-> <<>>, seen |-> seen]
    ELSE LET left == FilterRange(ds, lo, (lo + hi) \div 2, seen)
             right == FilterRange(ds, ((lo + hi) \div 2) + 1, hi, left.seen)
         IN [out |-> left.out \o right.out, seen |-> right.seen]

\* a filter that validates but never consults `seen`
FilterDomainsNoSeen(ds) == SelectSeq(ds, LAMBDA d : ValidateDomain(d.name))

FilterDomains(ds) == FilterRange(ds, 1, Len(ds), {}).out

(***************************************************************************)
(* The perturbation algorithms of DomainFuzz on the stem s (self.domain).  *)
(***************************************************************************)
Keyboards == <<Qwerty, Qwertz, Azerty>>

Vals(q) == [i \in 1 .. Len(q) |-> q[i].val]

\* the entries of a sequence of [ok, val] records whose ok holds, in order
Kept(q) == Vals(SelectSeq(q, LAMBDA r : r.ok))

\* __addition
Addition(s) == [k \in 1 .. 26 |-> Append(s, 96 + k)]

\* __bitsquatting
\* only the three low bits are flipped
MasksLowBits == <<1, 2, 4>>

Masks == <<1, 2, 4, 8, 16, 32, 64, 128>>

Bitsquatting(s) ==
    Kept([k \in 1 .. Len(s) * Len(Masks) |->
            LET i == ((k - 1) \div Len(Masks)) + 1
                b == Xor(s[i], Masks[((k - 1) % Len(Masks)) + 1])
            IN [ok |-> IsDigit(b) \/ IsLower(b) \/ b = Hyphen,
                val |-> [s EXCEPT ![i] = b]]])

\* __homoglyph: one pass over every window of d (ws = window size, i = start)
HomoglyphWindow(d, i, ws) ==
    LET win == SubSeq(d, i + 1, i + ws)
    IN UNION {{Upto(d, i) \o ReplaceAll(win, win[j], g) \o From(d, i + ws) :
                  g \in Range(Glyphs[win[j]])} :
              j \in {j \in 1 .. ws : win[j] \in DOMAIN Glyphs}}

HomoglyphPass(d) ==
    UNION {HomoglyphWindow(d, w[2], w[1]) :
             w \in {w \in (1 .. Len(d) - 1) \X (0 .. Len(d) - 1) :
                       w[2] <= Len(d) - w[1]}}

Homoglyph(s) ==
    LET result_1pass == HomoglyphPass(s)
        result_2pass == UNION {HomoglyphPass(d) : d \in result_1pass}
    IN result_1pass \cup result_2pass

\* __hyphenation
Hyphenation(s) ==
    [i \in 1 .. Len(s) - 1 |-> Upto(s, i) \o <<Hyphen>> \o From(s, i)]

\* an insertion whose i also reaches the last character
InsertionThroughLast(s) ==
    UNION {UNION {{Upto(s, i) \o <<c, s[i + 1]>> \o From(s, i + 1),
                   Upto(s, i) \o <<s[i + 1], c>> \o From(s, i + 1)} :
                     c \in UNION {Range(Keyboards[k][s[i + 1]]) :
                               k \in {k \in 1 .. 3 :
                                        s[i + 1] \in DOMAIN Keyboards[k]}}} :
           i \in 1 .. Len(s) - 1}

\* __insertion: i ranges over range(1, len - 1)
Insertion(s) ==
    UNION {UNION {{Upto(s, i) \o <<c, s[i + 1]>> \o From(s, i + 1),
                   Upto(s, i) \o <<s[i + 1], c>> \o From(s, i + 1)} :
                     c \in UNION {Range(Keyboards[k][s[i + 1]]) :
                               k \in {k \in 1 .. 3 :
                                        s[i + 1] \in DOMAIN Keyboards[k]}}} :
           i \in 1 .. Len(s) - 2}

\* re.sub(r"(.)\1+", r"\1", s)
RECURSIVE CollapseRuns(_)
CollapseRuns(s) ==
    IF Len(s) <= 1 THEN s
    ELSE IF s[1] = s[2] THEN CollapseRuns(Tail(s))
    ELSE <<s[1]>> \o CollapseRuns(Tail(s))

\* an omission without the run-collapsed form
OmissionDeletionsOnly(s) ==
    {Upto(s, i) \o From(s, i + 1) : i \in 0 .. Len(s) - 1}

\* __omission
Omission(s) ==
    LET result == {Upto(s, i) \o From(s, i + 1) : i \in 0 .. Len(s) - 1}
        n == CollapseRuns(s)
    IN IF n \notin result /\ n # s THEN result \cup {n} ELSE result

\* __repetition
Repetition(s) ==
    {Upto(s, i) \o <<s[i + 1], s[i + 1]>> \o From(s, i + 1) :
        i \in {i \in 0 .. Len(s) - 1 : IsAlpha(s[i + 1])}}

\* __replacement
Replacement(s) ==
    UNION {{Upto(s, i) \o <<c>> \o From(s, i + 1) :
              c \in UNION {Range(Keyboards[k][s[i + 1]]) :
                        k \in {k \in 1 .. 3 :
                                 s[i + 1] \in DOMAIN Keyboards[k]}}} :
           i \in 0 .. Len(s) - 1}

\* __subdomain
Subdomain(s) ==
    Kept([i \in 1 .. Len(s) - 1 |->
            [ok |-> s[i + 1] \notin {Hyphen, Dot} /\ s[i] \notin {Hyphen, Dot},
             val |-> Upto(s, i) \o <<Dot>> \o From(s, i)]])

\* a transposition that also swaps equal neighbours
TranspositionAll(s) ==
    Kept([k \in 1 .. Len(s) - 1 |->
            [ok |-> TRUE,
             val |-> Upto(s, k - 1) \o <<s[k + 1], s[k]>> \o From(s, k + 1)]])

\* __transposition: i ranges over range(0, len - 1)
Transposition(s) ==
    Kept([k \in 1 .. Len(s) - 1 |->
            [ok |-> s[k + 1] # s[k],
             val |-> Upto(s, k - 1) \o <<s[k + 1], s[k]>> \o From(s, k + 1)]])

\* __vowel_swap
Vowels == <<97, 101, 105, 111, 117>>

\* a vowel swap that substitutes only the other vowels
VowelSwapOthers(s) ==
    {[s EXCEPT ![i] = v] :
        i \in {i \in 1 .. Len(s) : s[i] \in Range(Vowels)},
        v \in Range(Vowels)} \ {s}

VowelSwap(s) ==
    {[s EXCEPT ![i] = v] :
        i \in {i \in 1 .. Len(s) : s[i] \in Range(Vowels)}, v \in Range(Vowels)}

\* the "Various" names appended at the end of generate
Com == <<99, 111, 109>>

Various(s, tld) ==
    (IF Dot \in Range(tld)
     THEN <<s \o <<Dot>> \o Split(tld, Dot)[Len(Split(tld, Dot))], s \o tld>>
     ELSE <<>>)
    \o (IF Dot \notin Range(tld) THEN <<s \o tld \o <<Dot>> \o tld>> ELSE <<>>)
    \o (IF tld # Com /\ Dot \notin Range(tld)
        THEN <<s \o <<Hyphen>> \o tld \o <<Dot, 99, 111, 109>>>> ELSE <<>>)

\* candidates {"fuzzer": fz, "domain-name": n} for the names of a sequence
Tagged(fz, names) == [i \in 1 .. Len(names) |-> [fuzzer |-> fz, name |-> names[i]]]

WithTld(names, tld) == [i \in 1 .. Len(names) |-> names[i] \o <<Dot>> \o tld]

\* self.domains before __filter_domains
Unfiltered(s, tld, seed) ==
    Tagged("Original*", <<s \o <<Dot>> \o tld>>)
    \o Tagged("Addition", WithTld(Addition(s), tld))
    \o Tagged("Bitsquatting", WithTld(Bitsquatting(s), tld))
    \o Tagged("Homoglyph", WithTld(SetToList(Homoglyph(s), seed), tld))
    \o Tagged("Hyphenation", WithTld(Hyphenation(s), tld))
    \o Tagged("Insertion", WithTld(SetToList(Insertion(s), seed), tld))
    \o Tagged("Omission", WithTld(SetToList(Omission(s), seed), tld))
    \o Tagged("Repetition", WithTld(SetToList(Repetition(s), seed), tld))
    \o Tagged("Replacement", WithTld(SetToList(Replacement(s), seed), tld))
    \o Tagged("Subdomain", WithTld(Subdomain(s), tld))
    \o Tagged("Transposition", WithTld(Transposition(s), tld))
    \o Tagged("Vowel-swap", WithTld(SetToList(VowelSwap(s), seed), tld))
    \o Tagged("Various", Various(s, tld))

\* DomainFuzz.generate
Generate(s, tld, seed) == FilterDomains(Unfiltered(s, tld, seed))

(***************************************************************************)
(* DomainDict                                                              *)
(***************************************************************************)
\* load_dict: the stripped lines that are purely alphabetic, sorted
\* a < b for Python strings: code point order, a proper prefix first
StrLess(a, b) ==
    \E i \in 1 .. Len(b) :
        /\ \A j \in 1 .. i - 1 : j <= Len(a) /\ a[j] = b[j]
        /\ (i > Len(a) \/ a[i] < b[i])

\* sorted(S) by rank, for the few words of a dictionary
SortedWords(S) ==
    [k \in 1 .. Cardinality(S) |->
        CHOOSE w \in S : Cardinality({v \in S : StrLess(v, w)}) = k - 1]

LoadDict(lines) ==
    SortedWords({w \in lines :
                    Len(w) > 0 /\ \A i \in 1 .. Len(w) : IsAlpha(w[i])})

\* a composer that joins the words to the whole stem
DictionaryNamesWholeStem(s, words) ==
    Flatten([k \in 1 .. Len(words) |->
          << s \o <<Hyphen>> \o words[k],
             s \o words[k],
             words[k] \o <<Hyphen>> \o s,
             words[k] \o s >>])

\* __dictionary
DictionaryNames(s, words) ==
    LET domain == RSplit(s, Dot, 1)
        prefix == IF Len(domain) > 1 THEN domain[1] \o <<Dot>> ELSE <<>>
        name == IF Len(domain) > 1 THEN domain[2] ELSE domain[1]
    IN Flatten([k \in 1 .. Len(words) |->
          << prefix \o name \o <<Hyphen>> \o words[k],
             prefix \o name \o words[k],
             prefix \o words[k] \o <<Hyphen>> \o name,
             prefix \o words[k] \o name >>])

\* DomainDict.generate
DictGenerate(s, tld, words) ==
    Tagged("Dictionary", WithTld(DictionaryNames(s, words), tld))

VARIABLES
    mainpc,            \* position of main() / DNSTwister.run
    output_fmt,        \* args.output_fmt
    worker_count_arg,  \* args.worker_count
    worker_count,      \* DNSTwister.worker_count
    domains,           \* DNSTwister.domains, the shared deque
    total_domains,     \* local of run()
    successes,         \* local deque of run(), shared with the workers
    wpc,               \* position of each start_worker coroutine
    wdomain,           \* local `domain` of each start_worker coroutine
    inflight,          \* lookups issued to the resolver and not yet answered
    progress,          \* position of the status() task
    line,              \* last progress line printed: <<remaining, hits>>
    reported,          \* which generate_* output was printed ("none" if none)
    idle_written,      \* generate_idle output was written
    exited,            \* the process has exited
    exitCode,          \* its exit status
    reply,             \* history: outcome of the lookup of each candidate
    npops,             \* history: number of times each candidate was popped
    raised,            \* history: some lookup raised
    interrupted,       \* history: SIGINT was delivered
    gpc,               \* position of main() before the candidate list exists
    arg_domain,        \* args.domain (the host of the URL)
    hashseed,          \* hash seed of the process (set iteration order)
    fz_domain,         \* DomainFuzz.domain (the stem)
    fz_tld,            \* DomainFuzz.tld
    candidates,        \* the list `domains` of main()
    dictionary         \* DomainDict.dictionary after load_dict

\* state of the worker pool machine
pvars == <<mainpc, output_fmt, worker_count_arg, worker_count, domains,
           total_domains, successes, wpc, wdomain, inflight, progress, line,
           reported, idle_written, exited, exitCode, reply, npops, raised,
           interrupted>>

\* state of the generator machine
gvars == <<gpc, arg_domain, hashseed, fz_domain, fz_tld, candidates,
           dictionary>>

vars == <<pvars, gvars>>

MaxWorkers == IF MaxWorkerArg < 1 THEN 1 ELSE MaxWorkerArg
Workers == 1 .. MaxWorkers
Cands == 1 .. MaxCandidates

\* the queue handed to main's tail: candidates 1..n in generation order
InitialQueue(n) == [i \in 1 .. n |-> i]

(***************************************************************************)
(* DNSTwister.__init__ : self.worker_count = max(1, worker_count)          *)
(***************************************************************************)
WorkerCountNoFloor(n) == n

WorkerCount(n) == IF 1 > n THEN 1 ELSE n

(***************************************************************************)
(* start_worker: `while self.domains:` (truthiness of the deque)           *)
(***************************************************************************)
LoopTestAlways(q) == TRUE

LoopTestInverted(q) == q = <<>>

LoopTest(q) == q # <<>>

(***************************************************************************)
(* start_worker: `if reply.rcode == asyncdns.NXDOMAIN: continue`           *)
(***************************************************************************)
DiscardNever(r) == FALSE

DiscardAnyError(r) == r # "NOERROR"

Discard(r) == r = "NXDOMAIN"

(***************************************************************************)
(* generate_cli: max([...]) over the successes raises ValueError when the  *)
(* list is empty; generate_csv and generate_json accept an empty list.     *)
(***************************************************************************)
ReportRaises(fmt, succ) == fmt \notin {"csv", "json"} /\ succ = <<>>

(***************************************************************************)
(* status.msg(): 100 * len(successes) / total_domains                      *)
(***************************************************************************)
MsgRaises(total) == total = 0

\* main() with the candidate list built: n candidates, format fmt, -k k
InitPoolWith(fmt, k, n) ==
    /\ mainpc = "main"
    /\ output_fmt = fmt
    /\ worker_count_arg = k
    /\ worker_count = 0
    /\ domains = InitialQueue(n)
    /\ total_domains = 0
    /\ successes = <<>>
    /\ wpc = [w \in Workers |-> "none"]
    /\ wdomain = [w \in Workers |-> 0]
    /\ inflight = {}
    /\ progress = "none"
    /\ line = <<>>
    /\ reported = "none"
    /\ idle_written = FALSE
    /\ exited = FALSE
    /\ exitCode = 0
    /\ reply = [c \in Cands |-> "none"]
    /\ npops = [c \in Cands |-> 0]
    /\ raised = FALSE
    /\ interrupted = FALSE

InitPool ==
    \E fmt \in Formats : \E k \in WorkerArgs : \E n \in 0 .. MaxCandidates :
        InitPoolWith(fmt, k, n)

\* the generator has run: the pool machine starts from its result
Init ==
    /\ InitPool
    /\ gpc = "ready"
    /\ arg_domain = <<>>
    /\ hashseed = 0
    /\ fz_domain = <<>>
    /\ fz_tld = <<>>
    /\ candidates = <<>>
    /\ dictionary = <<>>

(***************************************************************************)
(* main: `if args.output_fmt == "idle": write(generate_idle()); bye(0)`    *)
(***************************************************************************)
\* generate_idle: idna.encode of a candidate name raises
IdleRaises(ds) == \E i \in 1 .. Len(ds) : ~IdnaEncode(ds[i].name).ok

MainIdle ==
    /\ gpc = "ready"
    /\ mainpc = "main"
    /\ output_fmt = "idle"
    /\ ~IdleRaises(candidates)
    /\ idle_written' = TRUE
    /\ exited' = TRUE
    /\ exitCode' = 0
    /\ mainpc' = "exit"
    /\ UNCHANGED <<gvars, output_fmt, worker_count_arg, worker_count, domains,
                   total_domains, successes, wpc, wdomain, inflight, progress,
                   line, reported, reply, npops, raised, interrupted>>

\* generate_idle raises idna.IDNAError before anything is written: the
\* exception leaves main and the process ends with status 1.
MainIdleRaises ==
    /\ gpc = "ready"
    /\ mainpc = "main"
    /\ output_fmt = "idle"
    /\ IdleRaises(candidates)
    /\ exited' = TRUE
    /\ exitCode' = 1
    /\ mainpc' = "exit"
    /\ UNCHANGED <<gvars, output_fmt, worker_count_arg, worker_count, domains,
                   total_domains, successes, wpc, wdomain, inflight, progress,
                   line, reported, idle_written, reply, npops, raised,
                   interrupted>>

(***************************************************************************)
(* main: DNSTwister(...) and asyncio.run(twister.run()) up to the first    *)
(* suspension of run(), the await of asyncio.gather: the status task    *)
(* and worker_count worker tasks are created and scheduled.                *)
(***************************************************************************)
MainRun ==
    /\ mainpc = "main"
    /\ output_fmt # "idle"
    /\ worker_count' = WorkerCount(worker_count_arg)
    /\ total_domains' = Len(domains)
    /\ progress' = "created"
    /\ wpc' = [w \in Workers |->
                 IF w <= WorkerCount(worker_count_arg) THEN "ready" ELSE "none"]
    /\ mainpc' = "gather"
    /\ UNCHANGED <<gvars, output_fmt, worker_count_arg, domains, successes, wdomain,
                   inflight, line, reported, idle_written, exited, exitCode,
                   reply, npops, raised, interrupted>>

(***************************************************************************)
(* start_worker from the loop test to the next suspension point:           *)
(*   while self.domains: domain = self.domains.popleft()                   *)
(*                       reply = await resolver.lookup(...)                *)
(* infl is the set of outstanding lookups before the new one is issued.    *)
(* popleft() on an empty deque raises IndexError.                          *)
(***************************************************************************)
WorkerLoop(w, infl) ==
    IF LoopTest(domains)
    THEN IF domains = <<>>
         THEN /\ wpc' = [wpc EXCEPT ![w] = "indexerror"]
              /\ inflight' = infl
              /\ UNCHANGED <<gvars, domains, wdomain, npops>>
         ELSE /\ domains' = Tail(domains)
              /\ wdomain' = [wdomain EXCEPT ![w] = Head(domains)]
              /\ npops' = [npops EXCEPT ![Head(domains)] = @ + 1]
              /\ inflight' = infl \cup {<<w, Head(domains)>>}
              /\ wpc' = [wpc EXCEPT ![w] = "await"]
    ELSE /\ wpc' = [wpc EXCEPT ![w] = "done"]
         /\ inflight' = infl
         /\ UNCHANGED <<gvars, domains, wdomain, npops>>

\* the event loop runs the scheduled first steps in creation order: the
\* status task, then worker 1, worker 2, ...
AllStarted == \A w \in Workers : wpc[w] # "ready"

WorkerStart(w) ==
    /\ mainpc = "gather"
    /\ wpc[w] = "ready"
    /\ progress # "created"
    /\ \A v \in Workers : v < w => wpc[v] # "ready"
    /\ WorkerLoop(w, inflight)
    /\ UNCHANGED <<gvars, mainpc, output_fmt, worker_count_arg, worker_count,
                   total_domains, successes, progress, line, reported,
                   idle_written, exited, exitCode, reply, raised, interrupted>>

(***************************************************************************)
(* start_worker resumed by the outcome r of its lookup.  A raised lookup   *)
(* propagates out of the coroutine (there is no try/except); an NXDOMAIN   *)
(* reply continues the loop; any other reply appends the candidate to      *)
(* successes and continues the loop.                                       *)
(***************************************************************************)
WorkerReply(w, r) ==
    /\ mainpc \in {"gather", "await_progress"}
    /\ wpc[w] = "await"
    /\ AllStarted
    /\ <<w, wdomain[w]>> \in inflight
    /\ reply' = [reply EXCEPT ![wdomain[w]] = r]
    /\ IF r = "TIMEOUT"
       THEN /\ wpc' = [wpc EXCEPT ![w] = "raised"]
            /\ inflight' = inflight \ {<<w, wdomain[w]>>}
            /\ raised' = TRUE
            /\ UNCHANGED <<gvars, domains, wdomain, npops, successes>>
       ELSE /\ successes' = IF Discard(r) THEN successes
                            ELSE Append(successes, wdomain[w])
            /\ WorkerLoop(w, inflight \ {<<w, wdomain[w]>>})
            /\ UNCHANGED raised
    /\ UNCHANGED <<gvars, mainpc, output_fmt, worker_count_arg, worker_count,
                   total_domains, progress, line, reported, idle_written,
                   exited, exitCode, interrupted>>

(***************************************************************************)
(* status(): first step up to `await asyncio.sleep(.5)`                    *)
(***************************************************************************)
ProgressStart ==
    /\ progress = "created"
    /\ progress' = "sleep"
    /\ UNCHANGED <<gvars, mainpc, output_fmt, worker_count_arg, worker_count,
                   domains, total_domains, successes, wpc, wdomain, inflight,
                   line, reported, idle_written, exited, exitCode, reply,
                   npops, raised, interrupted>>

(***************************************************************************)
(* status(): the sleep returns, `print(msg(), end="")`, sleep again.       *)
(* ZeroDivisionError in msg() is not caught and ends the task.             *)
(***************************************************************************)
ProgressTick ==
    /\ progress = "sleep"
    /\ mainpc = "gather"
    /\ AllStarted
    /\ IF MsgRaises(total_domains)
       THEN progress' = "crashed" /\ UNCHANGED line
       ELSE line' = <<Len(domains), Len(successes)>> /\ UNCHANGED progress
    /\ UNCHANGED <<gvars, mainpc, output_fmt, worker_count_arg, worker_count,
                   domains, total_domains, successes, wpc, wdomain, inflight,
                   reported, idle_written, exited, exitCode, reply, npops,
                   raised, interrupted>>

\* what a cancelled status task does: except CancelledError: print(msg());
\* break; print(); print("Took ...").  A task that already ended stays as is.
CancelProgressPc(p, total) ==
    IF p \in {"sleep", "cancelling"}
    THEN (IF MsgRaises(total) THEN "crashed" ELSE "returned")
    ELSE IF p = "created" THEN "cancelled" ELSE p

CancelProgressLine(p, total) ==
    IF p \in {"sleep", "cancelling"} /\ ~MsgRaises(total)
    THEN <<Len(domains), Len(successes)>>
    ELSE line

(***************************************************************************)
(* run(): gather() returned because every worker returned;                 *)
(* `progress_task.cancel()` then `await progress_task`.                    *)
(***************************************************************************)
MainGathered ==
    /\ mainpc = "gather"
    /\ \A w \in Workers : w <= worker_count => wpc[w] = "done"
    /\ mainpc' = "await_progress"
    /\ progress' = IF progress = "sleep" THEN "cancelling" ELSE progress
    /\ UNCHANGED <<gvars, output_fmt, worker_count_arg, worker_count, domains,
                   total_domains, successes, wpc, wdomain, inflight, line,
                   reported, idle_written, exited, exitCode, reply, npops,
                   raised, interrupted>>

(***************************************************************************)
(* status(): CancelledError delivered at the sleep.                        *)
(***************************************************************************)
ProgressCancelled ==
    /\ progress = "cancelling"
    /\ progress' = CancelProgressPc(progress, total_domains)
    /\ line' = CancelProgressLine(progress, total_domains)
    /\ UNCHANGED <<gvars, mainpc, output_fmt, worker_count_arg, worker_count,
                   domains, total_domains, successes, wpc, wdomain, inflight,
                   reported, idle_written, exited, exitCode, reply, npops,
                   raised, interrupted>>

(***************************************************************************)
(* run(): `await progress_task` returns (or re-raises the task's error),   *)
(* the report is printed by generate_csv / generate_json / generate_cli,   *)
(* asyncio.run returns and main ends.  An exception leaving main ends the  *)
(* process with status 1.                                                  *)
(***************************************************************************)
MainReport ==
    /\ mainpc = "await_progress"
    /\ progress \in {"returned", "crashed"}
    /\ mainpc' = "exit"
    /\ exited' = TRUE
    /\ IF progress = "crashed" \/ ReportRaises(output_fmt, successes)
       THEN exitCode' = 1 /\ UNCHANGED reported
       ELSE exitCode' = 0 /\ reported' = output_fmt
    /\ UNCHANGED <<gvars, output_fmt, worker_count_arg, worker_count, domains,
                   total_domains, successes, wpc, wdomain, inflight, progress,
                   line, idle_written, reply, npops, raised, interrupted>>

\* asyncio.run's cleanup: every task still pending is cancelled
CancelWorkers ==
    [w \in Workers |-> IF wpc[w] \in {"ready", "await"} THEN "cancelled"
                       ELSE wpc[w]]

(***************************************************************************)
(* A worker ended with an exception: gather() re-raises it into run(),     *)
(* nothing in run() or main() catches it, asyncio.run cancels the tasks    *)
(* still pending and the process ends with a traceback, status 1.          *)
(***************************************************************************)
MainAbort ==
    /\ mainpc = "gather"
    /\ \E w \in Workers : wpc[w] \in {"raised", "indexerror"}
    /\ mainpc' = "exit"
    /\ wpc' = CancelWorkers
    /\ inflight' = {}
    /\ progress' = CancelProgressPc(progress, total_domains)
    /\ line' = CancelProgressLine(progress, total_domains)
    /\ exited' = TRUE
    /\ exitCode' = 1
    /\ UNCHANGED <<gvars, output_fmt, worker_count_arg, worker_count, domains,
                   total_domains, successes, wdomain, reported, idle_written,
                   reply, npops, raised, interrupted>>

(***************************************************************************)
(* SIGINT while asyncio.run is running.  No handler is installed (the      *)
(* sigint_handler is commented out): the main task is cancelled or         *)
(* KeyboardInterrupt leaves the loop, asyncio.run cancels every pending    *)
(* task and KeyboardInterrupt leaves main; the status is 130.              *)
(***************************************************************************)
Interrupt ==
    /\ mainpc \in {"gather", "await_progress"}
    /\ interrupted' = TRUE
    /\ mainpc' = "exit"
    /\ wpc' = CancelWorkers
    /\ inflight' = {}
    /\ progress' = CancelProgressPc(progress, total_domains)
    /\ line' = CancelProgressLine(progress, total_domains)
    /\ exited' = TRUE
    /\ exitCode' = 130
    /\ UNCHANGED <<gvars, output_fmt, worker_count_arg, worker_count, domains,
                   total_domains, successes, wdomain, reported, idle_written,
                   reply, npops, raised>>

Next ==
    \/ MainIdle
    \/ MainRun
    \/ ProgressStart
    \/ \E w \in Workers : WorkerStart(w)
    \/ \E w \in Workers : \E r \in Outcomes : WorkerReply(w, r)
    \/ ProgressTick
    \/ MainGathered
    \/ ProgressCancelled
    \/ MainReport
    \/ MainAbort
    \/ Interrupt

Spec == Init /\ [][Next]_vars

\* the event loop runs every task that is ready, and delivers every outcome
\* the resolver produces
LiveSpec ==
    /\ Spec
    /\ WF_vars(MainRun)
    /\ WF_vars(ProgressStart)
    /\ \A w \in Workers : WF_vars(WorkerStart(w))
    /\ \A w \in Workers : WF_vars(\E r \in Outcomes : WorkerReply(w, r))
    /\ WF_vars(MainGathered)
    /\ WF_vars(ProgressCancelled)
    /\ WF_vars(MainReport)
    /\ WF_vars(MainAbort)

(***************************************************************************)
(* main() from the command line to the candidate list: UrlParser,          *)
(* DomainFuzz.generate and the optional DomainDict extension.              *)
(***************************************************************************)
\* characters of the enumerated stems: a 0 - .
StemAlphabet == {97, 48, Hyphen, Dot}

Stems == UNION {[1 .. k -> StemAlphabet] : k \in 1 .. MaxStemLen}

\* a top-level label one character longer than a DNS label may be
LongTld == [i \in 1 .. MaxLabelLen + 1 |-> 120]

\* com, co.uk, uk, "com." (rooted), and the over-long label
Suffixes ==
    {Com, <<99, 111, 46, 117, 107>>, <<117, 107>>, <<99, 111, 109, 46>>,
     LongTld}

\* hosts typed with capitals: A0.com, Aa.CO.uk
MixedCaseHosts ==
    {<<65, 48, 46, 99, 111, 109>>, <<65, 97, 46, 67, 79, 46, 117, 107>>}

Hosts == {s \o <<Dot>> \o t : s \in Stems, t \in Suffixes} \cup MixedCaseHosts

\* a word as long as a DNS label may be
LongWord == [i \in 1 .. MaxLabelLen |-> 122]

\* lines a dictionary file may hold: a, ab, a0, and the long word
DictPool == {<<97>>, <<97, 98>>, <<97, 48>>, LongWord}

DictFiles == SUBSET DictPool

\* main() entered with the host taken from hosts and --format fmt
GenInitWith(hosts, fmt) ==
    /\ gpc = "args"
    /\ arg_domain \in hosts
    /\ hashseed \in Seeds
    /\ fz_domain = <<>>
    /\ fz_tld = <<>>
    /\ candidates = <<>>
    /\ dictionary = <<>>
    /\ InitPoolWith(fmt, 1, 0)

GenInit == GenInitWith(Hosts, "cli")

\* main: url = UrlParser(args.domain); DomainFuzz(url.domain).__init__.
\* On ValueError main calls p_err, which raises NameError (os.path is not
\* imported): the process ends with status 1.
UrlParse ==
    /\ gpc = "args"
    /\ IF UrlValidateDomain(Lower(arg_domain))
       THEN /\ gpc' = "parsed"
            /\ fz_domain' = DomainTld(Lower(arg_domain))[1]
            /\ fz_tld' = DomainTld(Lower(arg_domain))[2]
            /\ UNCHANGED <<exited, exitCode>>
       ELSE /\ gpc' = "invalid"
            /\ exited' = TRUE
            /\ exitCode' = 1
            /\ UNCHANGED <<fz_domain, fz_tld>>
    /\ UNCHANGED <<arg_domain, hashseed, candidates, dictionary>>
    /\ UNCHANGED <<mainpc, output_fmt, worker_count_arg, worker_count,
                   domains, total_domains, successes, wpc, wdomain, inflight,
                   progress, line, reported, idle_written, reply, npops,
                   raised, interrupted>>

\* main: domains = dfuzz.generate()
Fuzz ==
    /\ gpc = "parsed"
    /\ gpc' = "fuzzed"
    /\ candidates' = Generate(fz_domain, fz_tld, hashseed)
    /\ UNCHANGED <<arg_domain, hashseed, fz_domain, fz_tld, dictionary, pvars>>

\* main: args.dictionary is not given
NoDictionary ==
    /\ gpc = "fuzzed"
    /\ gpc' = "ready"
    /\ UNCHANGED <<arg_domain, hashseed, fz_domain, fz_tld, candidates,
                   dictionary, pvars>>

\* main: ddict = DomainDict(url.domain); ddict.load_dict(file);
\*       domains.extend(ddict.generate())
Dictionary(lines) ==
    /\ gpc = "fuzzed"
    /\ gpc' = "ready"
    /\ dictionary' = LoadDict(lines)
    /\ candidates' = candidates
          \o DictGenerate(DomainTld(Lower(arg_domain))[1],
                          DomainTld(Lower(arg_domain))[2], LoadDict(lines))
    /\ UNCHANGED <<arg_domain, hashseed, fz_domain, fz_tld, pvars>>

GenNext ==
    \/ UrlParse
    \/ Fuzz
    \/ NoDictionary
    \/ \E lines \in DictFiles : Dictionary(lines)

GenSpec == GenInit /\ [][GenNext]_vars

(***************************************************************************)
(* main() run with --format idle, from the command line to its exit.       *)
(***************************************************************************)
\* the hosts with a one-character stem
IdleHosts == {s \o <<Dot>> \o t : s \in [1 .. 1 -> StemAlphabet], t \in Suffixes}

IdleInit == GenInitWith(IdleHosts, "idle")

IdleNext ==
    \/ GenNext
    \/ MainIdle
    \/ MainIdleRaises

IdleSpec == IdleInit /\ [][IdleNext]_vars

(***************************************************************************)
(* Claims about the worker pool.                                           *)
(***************************************************************************)
Started == {w \in Workers : wpc[w] # "none"}

\* Python's max(1, n), written out independently of WorkerCount
FloorOne(n) == IF n >= 1 THEN n ELSE 1

\* every started worker has returned, the queue is empty and every candidate
\* of the initial queue has received the outcome of its lookup
PoolComplete ==
    /\ mainpc # "main"
    /\ \A w \in Workers : w <= FloorOne(worker_count_arg) => wpc[w] = "done"
    /\ domains = <<>>
    /\ \A c \in Cands : c <= total_domains => reply[c] # "none"

\* C1: under every interleaving of the K workers each candidate is popped at
\* most once (so it is held by at most one worker and queried at most once)
\* and no worker ever pops from an empty queue (no IndexError from popleft).
C1_PopAtMostOnce ==
    /\ \A c \in Cands : npops[c] <= 1
    /\ \A w \in Workers : wpc[w] # "indexerror"
    /\ \A v, w \in Workers :
          (wpc[v] = "await" /\ wpc[w] = "await" /\ wdomain[v] = wdomain[w])
             => v = w
    /\ \A q \in inflight : npops[q[2]] = 1

\* C1 witness: one worker saw the empty queue and returned while another still
\* holds the last popped candidate, every candidate having been popped once.
C1_Witness ==
    /\ total_domains >= 2
    /\ domains = <<>>
    /\ \A c \in Cands : c <= total_domains => npops[c] = 1
    /\ \E v, w \in Workers : v # w /\ wpc[v] = "done" /\ wpc[w] = "await"

\* C2: the SuccessList never holds more entries than candidates were handed
\* to the pool, and every entry received a reply whose rcode is not NXDOMAIN.
C2_SuccessBound ==
    /\ Len(successes) <= total_domains
    /\ \A i \in 1 .. Len(successes) :
          reply[successes[i]] \in Rcodes \ {"NXDOMAIN"}

\* C2 witness: one candidate was discarded as NXDOMAIN, another was appended.
C2_Witness ==
    /\ Len(successes) >= 1
    /\ \E c \in Cands : reply[c] = "NXDOMAIN"

\* C3: if no lookup raises and no interrupt arrives, then under fair
\* scheduling the pool eventually completes: every one of the K workers has
\* returned, the queue is empty and every candidate has been queried.
C3_PoolCompletes ==
    (output_fmt # "idle" /\ [](~raised /\ ~interrupted)) => <>PoolComplete

\* C3 witness: a pool of at least two workers completed a queue of at least
\* two candidates.
C3_Witness ==
    /\ PoolComplete
    /\ ~raised
    /\ total_domains >= 2
    /\ Cardinality(Started) >= 2

\* C4 (as claimed): a lookup that times out or fails never aborts the run:
\* when the process has exited the queue was drained and the report printed.
C4_FailureNeverAborts ==
    (exited /\ raised /\ ~interrupted)
        => (domains = <<>> /\ reported # "none")

\* C5 (as claimed): a candidate whose query timed out, failed or was answered
\* with an error rcode such as REFUSED or SERVFAIL is never in the SuccessList.
C5_FailureDiscarded ==
    \A i \in 1 .. Len(successes) :
        reply[successes[i]] \notin {"TIMEOUT", "SERVFAIL", "REFUSED"}

\* C5 (amended): a candidate whose lookup raised (timeout, network error) is
\* never in the SuccessList, whereas a candidate answered with a non-NXDOMAIN
\* error rcode (REFUSED, SERVFAIL) is appended to the SuccessList.
C5_OnlyRaisedDiscarded ==
    \A c \in Cands :
        /\ reply[c] = "TIMEOUT" => c \notin Range(successes)
        /\ reply[c] \in {"SERVFAIL", "REFUSED"} => c \in Range(successes)

\* C5 witness: one candidate answered SERVFAIL or REFUSED and one candidate
\* whose lookup raised.
C5_Witness ==
    /\ \E c \in Cands : reply[c] \in {"SERVFAIL", "REFUSED"}
    /\ \E c \in Cands : reply[c] = "TIMEOUT"

\* C6 (as claimed): after a cancellation signal the Reporter still runs on
\* the partial SuccessList and the process exits with code 0.
C6_CancelFlushes ==
    (interrupted /\ exited) => (reported # "none" /\ exitCode = 0)

\* C7 (as claimed): a run that completes with every candidate answered
\* NXDOMAIN prints its report in the requested format and exits with code 0.
C7_ZeroHitsReport ==
    ( /\ exited
      /\ output_fmt \in {"cli", "csv", "json"}
      /\ ~raised
      /\ ~interrupted
      /\ total_domains > 0
      /\ \A c \in Cands : c <= total_domains => reply[c] = "NXDOMAIN" )
        => (reported = output_fmt /\ exitCode = 0)

\* C8: for every requested worker count N the pool runs exactly max(1, N)
\* workers, at most that many lookups are in flight, and no worker has more
\* than one lookup outstanding.
C8_WorkerBound ==
    /\ (mainpc # "main" /\ output_fmt # "idle")
          => /\ worker_count = FloorOne(worker_count_arg)
             /\ Cardinality(Started) = FloorOne(worker_count_arg)
    /\ Cardinality(inflight) <= FloorOne(worker_count_arg)
    /\ \A p, q \in inflight : p[1] = q[1] => p = q

\* C8 witness: a requested count below 1 with the single worker's lookup in
\* flight.
C8_Witness ==
    /\ worker_count_arg < 1
    /\ Cardinality(inflight) = 1
    /\ Cardinality(Started) = 1

(***************************************************************************)
(* Claims about the candidate generator.                                   *)
(***************************************************************************)
Names(ds) == {ds[i].name : i \in 1 .. Len(ds)}

\* no candidate submitted to the filter has a label that starts with xn--
NoALabelInput ==
    gpc = "parsed" =>
        \A d \in Range(Unfiltered(fz_domain, fz_tld, hashseed)) :
            \A l \in Range(Split(d.name, Dot)) : ~HasALabelPrefix(Lower(l))

\* C9 (as claimed): for every host accepted by UrlParser the list returned by
\* DomainFuzz.generate holds exactly one candidate tagged Original*, and its
\* name is stem + "." + tld, the unmodified host.
C9_OriginalOnce ==
    gpc \in {"fuzzed", "ready"} =>
        /\ Cardinality({i \in 1 .. Len(candidates) :
                           candidates[i].fuzzer = "Original*"}) = 1
        /\ \A i \in 1 .. Len(candidates) :
              candidates[i].fuzzer = "Original*" =>
                 /\ candidates[i].name = fz_domain \o <<Dot>> \o fz_tld
                 /\ candidates[i].name = Lower(arg_domain)

\* C10 (as claimed): no name appears twice in the candidate list handed to
\* the worker pool or printed in idle mode, with or without a dictionary.
C10_NoDuplicateNames ==
    gpc = "ready" => Cardinality(Names(candidates)) = Len(candidates)

\* the IDNA encoding of a name exists and matches the label regex
EncodedNameValid(name) ==
    IdnaEncode(name).ok /\ AllowedMatch(IdnaEncode(name).val)

\* C11 (as claimed): every candidate name that reaches the worker pool or the
\* idle output, Dictionary candidates included, is IDNA-encodable and its
\* encoded form matches the label regex.
C11_AllNamesValid ==
    gpc = "ready" =>
        \A i \in 1 .. Len(candidates) : EncodedNameValid(candidates[i].name)

\* C12 (as claimed): DomainFuzz.generate is deterministic: every run on the
\* same host returns the same sequence of (algorithm tag, name) pairs,
\* whatever the hash seed of the run.
C12_Deterministic ==
    gpc = "fuzzed" =>
        \A seed \in Seeds : Generate(fz_domain, fz_tld, seed) = candidates

\* the fixed order in which generate runs the algorithms
FuzzerOrder ==
    <<"Original*", "Addition", "Bitsquatting", "Homoglyph", "Hyphenation",
      "Insertion", "Omission", "Repetition", "Replacement", "Subdomain",
      "Transposition", "Vowel-swap", "Various">>

FuzzerRank(f) == CHOOSE k \in 1 .. Len(FuzzerOrder) : FuzzerOrder[k] = f

\* the candidates of ds tagged f, in order, and the set of their names
Block(ds, f) == SelectSeq(ds, LAMBDA d : d.fuzzer = f)

BlockNames(ds, f) == Names(Block(ds, f))

\* the candidates of b that are the first of b to carry their name, in order
Firsts(b) ==
    IF Cardinality(Names(b)) = Len(b) THEN b
    ELSE LET idx == SortedInts({i \in 1 .. Len(b) :
                        \A k \in 1 .. i - 1 : b[k].name # b[i].name})
         IN [k \in 1 .. Len(idx) |-> b[idx[k]]]

\* the names inserted by more than one algorithm
MultiNames(ds) ==
    UNION {BlockNames(ds, FuzzerOrder[p[1]]) \cap BlockNames(ds, FuzzerOrder[p[2]]) :
             p \in {p \in (1 .. Len(FuzzerOrder)) \X (1 .. Len(FuzzerOrder)) :
                       p[1] < p[2]}}

\* C13: a name produced by several algorithms is kept once (when valid), with
\* the tag of the algorithm that inserted it first in the fixed order
\* Original*, Addition, ..., Various; the kept candidates stand in that order
\* of algorithms, and within one algorithm in the order of their first
\* insertion.
C13_FirstTagKept ==
    gpc = "fuzzed" =>
        LET inserted == Unfiltered(fz_domain, fz_tld, hashseed)
            names == [k \in 1 .. Len(FuzzerOrder) |->
                         BlockNames(inserted, FuzzerOrder[k])]
            kept == Range(candidates)
        IN /\ Cardinality(Names(candidates)) = Len(candidates)
           /\ \A j \in 1 .. Len(candidates) :
                 LET r == FuzzerRank(candidates[j].fuzzer)
                 IN /\ candidates[j].name \in names[r]
                    /\ \A q \in 1 .. r - 1 : candidates[j].name \notin names[q]
                    /\ j > 1 => FuzzerRank(candidates[j - 1].fuzzer) <= r
           /\ \A x \in MultiNames(inserted) :
                 ValidateDomain(x) => x \in Names(candidates)
           /\ \A k \in 1 .. Len(FuzzerOrder) :
                 Block(candidates, FuzzerOrder[k])
                    = SelectSeq(Firsts(Block(inserted, FuzzerOrder[k])),
                                LAMBDA d : d \in kept)

\* C13 witness: a valid name inserted by two different algorithms, kept with
\* the tag of the earlier one.
C13_Witness ==
    /\ gpc = "fuzzed"
    /\ LET inserted == Unfiltered(fz_domain, fz_tld, hashseed)
       IN \E j \in 1 .. Len(candidates) : \E i \in 1 .. Len(inserted) :
             /\ inserted[i].name = candidates[j].name
             /\ FuzzerRank(candidates[j].fuzzer) < FuzzerRank(inserted[i].fuzzer)

\* no worker or progress task was created and no lookup was issued
PoolUntouched ==
    /\ progress = "none"
    /\ \A w \in Workers : wpc[w] = "none"
    /\ inflight = {}
    /\ \A c \in Cands : reply[c] = "none" /\ npops[c] = 0

\* C14 (as claimed): with output format idle and an accepted host, the
\* program ends having written the candidate names, with exit code 0, and
\* without a worker, a progress task or a DNS query.
C14_IdleBeforePool ==
    (output_fmt = "idle" /\ gpc = "ready" /\ exited)
        => (idle_written /\ exitCode = 0 /\ PoolUntouched)

\* every worker task that run() created has returned
WorkersExited == \A w \in Workers : w <= worker_count => wpc[w] = "done"

\* C15 (as claimed): the report is printed only after the pool is complete
\* and the progress task has terminated; the progress task is signalled only
\* after every worker has exited, it then prints one final progress line and
\* returns; once the report is printed the SuccessList is not appended to.
C15_ReportAfterPool ==
    /\ [](reported # "none" =>
             (WorkersExited /\ domains = <<>> /\ progress = "returned"))
    /\ [](progress = "cancelling" => WorkersExited)
    /\ []((mainpc \in {"await_progress", "exit"} /\ output_fmt # "idle"
             /\ ~raised /\ ~interrupted /\ progress # "cancelling")
            => (progress = "returned" /\ line = <<0, Len(successes)>>))
    /\ [][reported # "none" => successes' = successes]_vars

\* sld is listed under tld in the index built from the suffix file
InSuffixIndex(sld, tld) ==
    \E k \in 1 .. Len(TldFile) :
        TldLineMatches(TldFile[k]) /\ TldFile[k] = sld \o <<Dot>> \o tld

\* C16: for every validated host, domain_tld returns (label[0], label[1]) for
\* two labels; for three or more labels it returns (the labels but the last
\* two joined by ".", label[-2] + "." + label[-1]) when label[-2] is listed
\* under label[-1] in the index, and otherwise (the labels but the last joined
\* by ".", label[-1]); in every case stem + "." + tld is the host.
C16_DomainTld ==
    gpc \in {"parsed", "fuzzed", "ready"} =>
        LET host == Lower(arg_domain)
            label == Split(host, Dot)
            n == Len(label)
        IN /\ <<fz_domain, fz_tld>> =
                 IF n = 2 THEN <<label[1], label[2]>>
                 ELSE IF InSuffixIndex(label[n - 1], label[n])
                      THEN <<Join(SubSeq(label, 1, n - 2), Dot),
                             label[n - 1] \o <<Dot>> \o label[n]>>
                      ELSE <<Join(SubSeq(label, 1, n - 1), Dot), label[n]>>
           /\ fz_domain \o <<Dot>> \o fz_tld = host

\* C16 witness: a host of four labels that ends in co.uk was split into a
\* two-label stem and the suffix co.uk.
C16_Witness ==
    /\ gpc = "parsed"
    /\ Len(Split(Lower(arg_domain), Dot)) = 4
    /\ fz_tld = <<99, 111, 46, 117, 107>>
    /\ Len(Split(fz_domain, Dot)) = 2

\* b is a with exactly one of its bits 0 .. 7 flipped
OneBitFlip(a, b) ==
    \E k \in 0 .. 7 :
        \/ b = a + 2 ^ k /\ (a \div 2 ^ k) % 2 = 0
        \/ b = a - 2 ^ k /\ (a \div 2 ^ k) % 2 = 1

\* the characters 0-9, a-z and "-"
BitsquatClass == (48 .. 57) \cup (97 .. 122) \cup {Hyphen}

\* C17: every string yielded by Bitsquatting for a stem s has the length of
\* s and differs from s at exactly one position, where it holds a character
\* of [0-9a-z-]; conversely every one-bit flip of a character of s that
\* lands in [0-9a-z-] is yielded.
C17_Bitsquatting ==
    gpc = "parsed" =>
        LET s == fz_domain
            yielded == Bitsquatting(s)
        IN /\ \A k \in 1 .. Len(yielded) :
                 /\ Len(yielded[k]) = Len(s)
                 /\ Cardinality({i \in 1 .. Len(s) : yielded[k][i] # s[i]}) = 1
                 /\ \A i \in 1 .. Len(s) :
                       yielded[k][i] # s[i] => yielded[k][i] \in BitsquatClass
           /\ \A i \in 1 .. Len(s) : \A c \in BitsquatClass :
                 OneBitFlip(s[i], c) => [s EXCEPT ![i] = c] \in Range(yielded)

\* C17 witness: a stem of at least two characters for which some flips are
\* yielded and some are rejected.
C17_Witness ==
    /\ gpc = "parsed"
    /\ Len(fz_domain) >= 2
    /\ Len(Bitsquatting(fz_domain)) >= 2
    /\ Len(Bitsquatting(fz_domain)) < Len(fz_domain) * Len(Masks)

\* C18: for every stem s Transposition yields exactly |s| - 1 - repeats
\* strings, repeats being the number of positions i with s[i] = s[i+1]; the
\* yielded strings are pairwise distinct and none of them is s.
C18_Transposition ==
    gpc = "parsed" =>
        LET s == fz_domain
            yielded == Transposition(s)
            repeats == Cardinality({i \in 1 .. Len(s) - 1 : s[i] = s[i + 1]})
        IN /\ Len(yielded) = Len(s) - 1 - repeats
           /\ Cardinality(Range(yielded)) = Len(yielded)
           /\ s \notin Range(yielded)

\* C18 witness: a stem with one pair of equal neighbours and one pair of
\* different neighbours.
C18_Witness ==
    /\ gpc = "parsed"
    /\ Len(fz_domain) = 3
    /\ Cardinality({i \in 1 .. 2 : fz_domain[i] = fz_domain[i + 1]}) = 1
    /\ Len(Transposition(fz_domain)) = 1

\* s with each maximal run of equal characters reduced to one character
RunCollapsed(s) ==
    LET idx == SortedInts({i \in 1 .. Len(s) : i = 1 \/ s[i] # s[i - 1]})
    IN [k \in 1 .. Len(idx) |-> s[idx[k]]]

\* s with the character at position i removed
Deleted(s, i) == [k \in 1 .. Len(s) - 1 |-> IF k < i THEN s[k] ELSE s[k + 1]]

\* C19: for every stem s Omission yields at most |s| + 1 candidates: the
\* distinct single-character deletions of s, plus the run-collapsed form of s
\* exactly when it differs from s and from every single-character deletion.
C19_Omission ==
    gpc = "parsed" =>
        LET s == fz_domain
            yielded == SetToList(Omission(s), hashseed)
            deletions == {Deleted(s, i) : i \in 1 .. Len(s)}
        IN /\ Len(yielded) <= Len(s) + 1
           /\ Cardinality(Range(yielded)) = Len(yielded)
           /\ Range(yielded) =
                 IF RunCollapsed(s) \notin deletions \cup {s}
                 THEN deletions \cup {RunCollapsed(s)} ELSE deletions

\* C19 witness: a stem whose run-collapsed form is yielded in addition to
\* its single-character deletions.
C19_Witness ==
    /\ gpc = "parsed"
    /\ RunCollapsed(fz_domain) \in Omission(fz_domain)
    /\ \A i \in 1 .. Len(fz_domain) :
          Deleted(fz_domain, i) # RunCollapsed(fz_domain)

\* the letters a e i o u
VowelSet == {97, 101, 105, 111, 117}

\* the positions at which t differs from s (t and s of equal length)
DiffPositions(s, t) == {i \in 1 .. Len(s) : t[i] # s[i]}

\* C20 (as claimed): every string yielded by Vowel-swap differs from the stem
\* at exactly one position, which holds a vowel before and after, so the
\* unmodified stem is never yielded; nothing is yielded for a stem without
\* vowels.
C20_VowelSwapOtherVowel ==
    gpc = "parsed" =>
        LET s == fz_domain
        IN /\ \A t \in VowelSwap(s) :
                 /\ Len(t) = Len(s)
                 /\ Cardinality(DiffPositions(s, t)) = 1
                 /\ \A i \in DiffPositions(s, t) :
                       s[i] \in VowelSet /\ t[i] \in VowelSet
           /\ Range(s) \cap VowelSet = {} => VowelSwap(s) = {}

\* C20 (amended): Vowel-swap substitutes each of the five vowels, the one
\* already there included, at each position holding a vowel: a yielded
\* string differs from the stem at no more than one position, which holds a
\* vowel before and after; every substitution of another vowel is yielded;
\* the unmodified stem is yielded exactly when the stem holds a vowel, and
\* nothing is yielded otherwise.  The unmodified name never survives the
\* filter as a Vowel-swap candidate.
C20_VowelSwapAnyVowel ==
    /\ gpc \in {"parsed", "fuzzed"} =>
          LET s == fz_domain
          IN /\ \A t \in VowelSwap(s) :
                   /\ Len(t) = Len(s)
                   /\ Cardinality(DiffPositions(s, t)) <= 1
                   /\ \A i \in DiffPositions(s, t) :
                         s[i] \in VowelSet /\ t[i] \in VowelSet
             /\ \A i \in 1 .. Len(s) : \A v \in VowelSet :
                   s[i] \in VowelSet =>
                       Upto(s, i - 1) \o <<v>> \o From(s, i) \in VowelSwap(s)
             /\ s \in VowelSwap(s) <=> Range(s) \cap VowelSet # {}
             /\ Range(s) \cap VowelSet = {} => VowelSwap(s) = {}
    /\ gpc = "fuzzed" =>
          \A j \in 1 .. Len(candidates) :
              candidates[j].fuzzer = "Vowel-swap" =>
                  candidates[j].name # fz_domain \o <<Dot>> \o fz_tld

\* C20 witness: Vowel-swap yielded the unmodified stem, and the generated
\* list holds Vowel-swap candidates.
C20_Witness ==
    /\ gpc = "fuzzed"
    /\ fz_domain \in VowelSwap(fz_domain)
    /\ \E j \in 1 .. Len(candidates) : candidates[j].fuzzer = "Vowel-swap"

\* the neighbours of the character ch on the layouts that hold it
Neighbours(ch) ==
    UNION {Range(Keyboards[k][ch]) :
             k \in {k \in 1 .. Len(Keyboards) : ch \in DOMAIN Keyboards[k]}}

\* s with c put immediately before, and immediately after, its p-th character
InsertBefore(s, p, c) == SubSeq(s, 1, p - 1) \o <<c>> \o SubSeq(s, p, Len(s))

InsertAfter(s, p, c) == SubSeq(s, 1, p) \o <<c>> \o SubSeq(s, p + 1, Len(s))

\* the insertions next to the characters at the (1-based) positions ps of s
InsertionsAt(s, ps) ==
    UNION {UNION {{InsertBefore(s, p, c), InsertAfter(s, p, c)} :
                     c \in Neighbours(s[p])} :
             p \in ps}

\* C21 (as claimed): Insertion covers every position i in [1, |s|-1] of the
\* stem (counted from 0, so every character but the first): for each
\* neighbour c of s[i] both the string with c before s[i] and the string with
\* c after s[i] are yielded.
C21_InsertionToLast ==
    gpc = "parsed" =>
        InsertionsAt(fz_domain, 2 .. Len(fz_domain)) \subseteq Insertion(fz_domain)

\* C21 (amended): Insertion covers the positions i in [1, |s|-2] of the stem
\* (counted from 0: every character but the first and the last): for each
\* neighbour c of s[i] both the string with c before s[i] and the string with
\* c after s[i] are yielded, and nothing else is yielded; in particular a
\* stem of fewer than three characters yields nothing.
C21_InsertionInterior ==
    gpc = "parsed" =>
        /\ Insertion(fz_domain)
              = InsertionsAt(fz_domain, 2 .. Len(fz_domain) - 1)
        /\ Len(fz_domain) < 3 => Insertion(fz_domain) = {}

\* C21 witness: a stem of three characters for which insertions are yielded
\* next to the middle character, while an insertion after the last character
\* is not.
C21_Witness ==
    /\ gpc = "parsed"
    /\ Len(fz_domain) = 3
    /\ Insertion(fz_domain) # {}
    /\ \E c \in Neighbours(fz_domain[3]) :
          InsertAfter(fz_domain, 3, c) \notin Insertion(fz_domain)

\* the names of the Dictionary candidates handed on by main, in order
DictionaryBlock == [k \in 1 .. Len(Block(candidates, "Dictionary")) |->
                       Block(candidates, "Dictionary")[k].name]

\* position of the last "." of s (0 if there is none)
LastDot(s) ==
    IF Dot \in Range(s) THEN MaxOf({i \in 1 .. Len(s) : s[i] = Dot}) ELSE 0

\* C22 (as claimed): for every stem, one that contains a "." included, and
\* every dictionary word w, exactly the four names stem-w, stem w, w-stem and
\* w stem are emitted, each followed by "." and the tld, tagged Dictionary.
C22_DictionaryWholeStem ==
    gpc = "ready" =>
        /\ Len(DictionaryBlock) = 4 * Len(dictionary)
        /\ \A k \in 1 .. Len(dictionary) :
              LET w == dictionary[k]
                  end == <<Dot>> \o fz_tld
              IN /\ DictionaryBlock[4 * k - 3]
                       = fz_domain \o <<Hyphen>> \o w \o end
                 /\ DictionaryBlock[4 * k - 2] = fz_domain \o w \o end
                 /\ DictionaryBlock[4 * k - 1]
                       = w \o <<Hyphen>> \o fz_domain \o end
                 /\ DictionaryBlock[4 * k] = w \o fz_domain \o end

\* C22 (amended): the words are joined to the last label of the stem: with
\* the stem split at its last "." into prefix (the dot included, empty for a
\* stem without ".") and name, exactly the four names prefix name-w,
\* prefix name w, prefix w-name and prefix w name are emitted for every
\* dictionary word w, each followed by "." and the tld, tagged Dictionary.
C22_DictionaryLastLabel ==
    gpc = "ready" =>
        /\ Len(DictionaryBlock) = 4 * Len(dictionary)
        /\ \A k \in 1 .. Len(dictionary) :
              LET w == dictionary[k]
                  prefix == SubSeq(fz_domain, 1, LastDot(fz_domain))
                  name == SubSeq(fz_domain, LastDot(fz_domain) + 1,
                                 Len(fz_domain))
                  end == <<Dot>> \o fz_tld
              IN /\ DictionaryBlock[4 * k - 3]
                       = prefix \o name \o <<Hyphen>> \o w \o end
                 /\ DictionaryBlock[4 * k - 2] = prefix \o name \o w \o end
                 /\ DictionaryBlock[4 * k - 1]
                       = prefix \o w \o <<Hyphen>> \o name \o end
                 /\ DictionaryBlock[4 * k] = prefix \o w \o name \o end

\* C22 witness: the candidates of a stem that contains a "." were extended
\* with the names of two dictionary words.
C22_Witness ==
    /\ gpc = "ready"
    /\ Dot \in Range(fz_domain)
    /\ Len(dictionary) >= 2
    /\ Len(DictionaryBlock) = 8

\* C23 (as claimed): in every state of a run of the pool the candidates in
\* the queue, those popped with their query in flight, those discarded as
\* NXDOMAIN and those in the SuccessList add up to the initial number of
\* candidates; so the remaining count plus the hit count of a progress line
\* never exceeds the total, and no candidate is appended twice.
C23_Conservation ==
    (mainpc # "main" /\ output_fmt # "idle") =>
        /\ Len(domains) + Cardinality(inflight)
              + Cardinality({c \in Cands : reply[c] = "NXDOMAIN"})
              + Len(successes) = total_domains
        /\ line # <<>> => line[1] + line[2] <= total_domains
        /\ Cardinality(Range(successes)) = Len(successes)

====
